---- MODULE Spec2Model ----
(***************************************************************************)
(* Chaikin curve editor (src/src/main.rs): the ChaikinCurve model and the  *)
(* frame loop of main that drives it.                                      *)
(*                                                                         *)
(* Coordinates are f32 in the source.  Every control point is a mouse      *)
(* position (a whole pixel) and every level of the animation is obtained   *)
(* by at most MAX_ANIMATION_STEPS passes of 0.75/0.25 interpolation, so    *)
(* each coordinate is a multiple of 1/4^MAX_ANIMATION_STEPS and is exactly *)
(* representable.  A coordinate v is therefore stored as the integer       *)
(* v * Scale.                                                              *)
(*                                                                         *)
(* Instant values are modelled by `elapsed`, the value last_step_time      *)
(* .elapsed() would return, in milliseconds, saturating at MaxElapsed.     *)
(***************************************************************************)
EXTENDS Integers, Sequences, FiniteSets, TLC

\* ---- program constants ------------------------------------------------
WIDTH == 800
HEIGHT == 600
POINT_RADIUS == 5
ANIMATION_STEP_DURATION == 500
MAX_ANIMATION_STEPS == 7

\* fixed-point denominator of a coordinate
Scale == 4 ^ MAX_ANIMATION_STEPS

\* ---- bounds -----------------------------------------------------------
\* most control points the user places
MaxPoints == 3
\* saturation of the elapsed-time reading
MaxElapsed == 1000
\* the longest side of the boxes the short lines are drawn in
LineSpan == 3
\* pixel positions the pointer reports
MousePositions == {<<0, 0>>, <<10, 20>>}
\* durations of one frame, in ms
FrameTimes == {250, 1000}
\* coordinates the points added by direct calls of add_point have
CurvePositions == {<<0, 0>>, <<10, 0>>, <<20, 0>>}
\* coordinates of the control points generate_animation_steps is run on
GenPositions == {<<0, 0>>, <<10, 0>>, <<20, 0>>, <<10, 20>>}
\* coordinates direct calls of the editing methods add points at and move
\* them to; (3,4) is at distance 5 of (0,0)
EditPositions == {<<0, 0>>, <<3, 4>>}
\* coordinates direct calls of select_point_at probe; (4,4) is within 5 of
\* (3,4) only, (10,0) is within 5 of no coordinate of EditPositions
SelectProbes == EditPositions \cup {<<4, 4>>, <<10, 0>>}

VARIABLES
    control_points,   \* ChaikinCurve.control_points: Seq of [position, selected]
    animation_steps,  \* ChaikinCurve.animation_steps: Seq of Seq of points
    current_step,     \* ChaikinCurve.current_step
    animating,        \* ChaikinCurve.animating
    elapsed,          \* ChaikinCurve.last_step_time.elapsed(), ms
    dragging,         \* main: let mut dragging
    pc,               \* position of main inside the body of the frame loop
    lastOp,           \* the operation the last step performed
    before,           \* animating, current_step and elapsed before that step
    arg,              \* arguments of the last call made directly
    ret,              \* value returned by the last call made directly
    buffer,           \* main: buffer, as the map from the indices written to colors
    plotted,          \* the (x, y) draw_point was called with, in order
    line              \* draw_line: its arguments and locals, and its position

vars == <<control_points, animation_steps, current_step, animating, elapsed,
          dragging, pc, lastOp, before, arg, ret, buffer, plotted, line>>

\* the variables the frame loop of the curve model does not touch
rasterVars == <<arg, ret, buffer, plotted, line>>

\* ---- helpers ----------------------------------------------------------
Min(a, b) == IF a < b THEN a ELSE b

\* `x as f32` of a pixel coordinate
AsF32(v) == v * Scale

\* the ChaikinCurve value held by main
chaikin ==
    [control_points  |-> control_points,
     animation_steps |-> animation_steps,
     current_step    |-> current_step,
     animating       |-> animating,
     elapsed         |-> elapsed]

\* assignment of a ChaikinCurve value to the variables
Store(c) ==
    /\ control_points' = c.control_points
    /\ animation_steps' = c.animation_steps
    /\ current_step' = c.current_step
    /\ animating' = c.animating
    /\ elapsed' = c.elapsed

\* what `before` records of the current state
Snapshot ==
    [animating |-> animating, current_step |-> current_step, elapsed |-> elapsed]

\* `ret` after a call that returns ()
NoValue == "()"

\* draw_line is not running
NoLine == [pc |-> "none"]

\* ---- ControlPoint -----------------------------------------------------
ControlPoint_new(x, y) == [position |-> <<x, y>>, selected |-> FALSE]

\* self.control_points.iter().map(|cp| cp.position).collect()
Positions(cps) == [i \in 1..Len(cps) |-> cps[i].position]

\* ---- ChaikinCurve -----------------------------------------------------
ChaikinCurve_new ==
    [control_points  |-> <<>>,
     animation_steps |-> <<>>,
     current_step    |-> 0,
     animating       |-> FALSE,
     elapsed         |-> 0]

add_point(c, x, y) ==
    [c EXCEPT !.control_points = Append(@, ControlPoint_new(x, y))]

\* reset_animation without line 57: the animating flag is left as it was
reset_animation_KeepAnimating(c) ==
    [c EXCEPT !.animation_steps = <<>>,
              !.current_step = 0]

reset_animation(c) ==
    [c EXCEPT !.animation_steps = <<>>,
              !.current_step = 0,
              !.animating = FALSE]

\* clear_points without the call of reset_animation
clear_points_NoReset(c) ==
    [c EXCEPT !.control_points = <<>>]

clear_points(c) ==
    reset_animation([c EXCEPT !.control_points = <<>>])

\* the weights 0.75 and 0.25 exchanged
Interp_Swapped(a, b) == (a + 3 * b) \div 4

\* a * 0.75 + b * 0.25 on one coordinate
Interp(a, b) == (3 * a + b) \div 4

\* the two points the loop body of chaikin_step pushes for the pair (p0, p1)
PairQ(p0, p1) == <<Interp(p0[1], p1[1]), Interp(p0[2], p1[2])>>
PairR(p0, p1) == <<Interp(p1[1], p0[1]), Interp(p1[2], p0[2])>>

\* what the for loop of chaikin_step pushes: for every pair i in 0..len-2, in
\* order, q of the pair and then r of the pair
ChaikinLoop(points) ==
    [j \in 1..(2 * (Len(points) - 1)) |->
        LET i == (j + 1) \div 2
        IN IF j % 2 = 1
           THEN PairQ(points[i], points[i + 1])
           ELSE PairR(points[i], points[i + 1])]

\* chaikin_step without the push of the last point (line 121)
chaikin_step_NoLast(points) ==
    IF Len(points) <= 2
    THEN points
    ELSE <<points[1]>> \o ChaikinLoop(points)

\* chaikin_step with < for <= in the guard of line 92
chaikin_step_Guard(points) ==
    IF Len(points) < 2
    THEN points
    ELSE <<points[1]>> \o ChaikinLoop(points) \o <<points[Len(points)]>>

chaikin_step(points) ==
    IF Len(points) <= 2
    THEN points
    ELSE <<points[1]>> \o ChaikinLoop(points) \o <<points[Len(points)]>>

\* the loop without the assignment to current_points: every pass refines the
\* initial points
RECURSIVE GenerateLoop_Unchained(_, _, _)
GenerateLoop_Unchained(steps, points, n) ==
    IF n = 0
    THEN steps
    ELSE GenerateLoop_Unchained(Append(steps, chaikin_step(points)), points, n - 1)

\* the for loop of generate_animation_steps, n passes left
RECURSIVE GenerateLoop(_, _, _)
GenerateLoop(steps, points, n) ==
    IF n = 0
    THEN steps
    ELSE LET next == chaikin_step(points)
         IN GenerateLoop(Append(steps, next), next, n - 1)

\* generate_animation_steps without the clear of line 72
generate_animation_steps_NoClear(c) ==
    LET initial_points == Positions(c.control_points)
    IN [c EXCEPT !.animation_steps =
            @ \o GenerateLoop(<<initial_points>>, initial_points, MAX_ANIMATION_STEPS)]

generate_animation_steps(c) ==
    LET initial_points == Positions(c.control_points)
    IN [c EXCEPT !.animation_steps =
            GenerateLoop(<<initial_points>>, initial_points, MAX_ANIMATION_STEPS)]

\* start_animation without the reset_animation of line 65
start_animation_NoReset(c) ==
    IF Len(c.control_points) <= 1
    THEN c
    ELSE [generate_animation_steps(c)
             EXCEPT !.animating = TRUE, !.elapsed = 0]

\* start_animation with the guard of line 61 off by one
start_animation_OnePoint(c) ==
    IF Len(c.control_points) < 1
    THEN c
    ELSE [generate_animation_steps(reset_animation(c))
             EXCEPT !.animating = TRUE, !.elapsed = 0]

start_animation(c) ==
    IF Len(c.control_points) <= 1
    THEN c
    ELSE [generate_animation_steps(reset_animation(c))
             EXCEPT !.animating = TRUE, !.elapsed = 0]

\* update_animation without the modulo of line 131
update_animation_NoWrap(c) ==
    IF ~c.animating \/ c.animation_steps = <<>>
    THEN c
    ELSE IF c.elapsed >= ANIMATION_STEP_DURATION
         THEN [c EXCEPT !.current_step = @ + 1,
                        !.elapsed = 0]
         ELSE c

\* update_animation with > for >= in line 130
update_animation_Strict(c) ==
    IF ~c.animating \/ c.animation_steps = <<>>
    THEN c
    ELSE IF c.elapsed > ANIMATION_STEP_DURATION
         THEN [c EXCEPT !.current_step = (@ + 1) % Len(c.animation_steps),
                        !.elapsed = 0]
         ELSE c

\* update_animation catching up by two levels at once
update_animation_Skip(c) ==
    IF ~c.animating \/ c.animation_steps = <<>>
    THEN c
    ELSE IF c.elapsed >= ANIMATION_STEP_DURATION
         THEN [c EXCEPT !.current_step = (@ + 2) % Len(c.animation_steps),
                        !.elapsed = 0]
         ELSE c

update_animation(c) ==
    IF ~c.animating \/ c.animation_steps = <<>>
    THEN c
    ELSE IF c.elapsed >= ANIMATION_STEP_DURATION
         THEN [c EXCEPT !.current_step = (@ + 1) % Len(c.animation_steps),
                        !.elapsed = 0]
         ELSE c

\* the hit test with < for <= in line 140
Hit_Strict(point, x, y) ==
    LET dx == (point.position[1] - x) \div Scale
        dy == (point.position[2] - y) \div Scale
    IN dx * dx + dy * dy < POINT_RADIUS * POINT_RADIUS

\* the hit test of select_point_at on one point; both operands are whole
\* pixels, so the difference is taken in pixels
Hit(point, x, y) ==
    LET dx == (point.position[1] - x) \div Scale
        dy == (point.position[2] - y) \div Scale
    IN dx * dx + dy * dy <= POINT_RADIUS * POINT_RADIUS

\* index of the first control point the loop of select_point_at hits, 0 if none
RECURSIVE FirstHit(_, _, _, _)
FirstHit(cps, i, x, y) ==
    IF i > Len(cps) THEN 0
    ELSE IF Hit(cps[i], x, y) THEN i
    ELSE FirstHit(cps, i + 1, x, y)

\* the return value of select_point_at
select_point_at_result(c, x, y) == FirstHit(c.control_points, 1, x, y) # 0

\* the state select_point_at leaves
select_point_at(c, x, y) ==
    LET i == FirstHit(c.control_points, 1, x, y)
    IN IF i = 0 THEN c
       ELSE [c EXCEPT !.control_points[i].selected = TRUE]

deselect_all_points(c) ==
    [c EXCEPT !.control_points =
        [i \in 1..Len(@) |-> [@[i] EXCEPT !.selected = FALSE]]]

\* move_selected_point leaving its loop after the first selected point
move_selected_point_First(c, x, y) ==
    [c EXCEPT !.control_points =
        [i \in 1..Len(@) |->
            IF @[i].selected /\ (\A j \in 1..(i - 1) : ~@[j].selected)
            THEN [@[i] EXCEPT !.position = <<x, y>>]
            ELSE @[i]]]

move_selected_point(c, x, y) ==
    [c EXCEPT !.control_points =
        [i \in 1..Len(@) |->
            IF @[i].selected THEN [@[i] EXCEPT !.position = <<x, y>>] ELSE @[i]]]

\* get_current_points returning the first level whatever current_step is
get_current_points_FirstLevel(c) ==
    IF c.animating /\ c.animation_steps # <<>>
    THEN c.animation_steps[1]
    ELSE IF Len(c.control_points) >= 2
    THEN Positions(c.control_points)
    ELSE IF Len(c.control_points) = 1
    THEN <<c.control_points[1].position>>
    ELSE <<>>

get_current_points(c) ==
    IF c.animating /\ c.animation_steps # <<>>
    THEN c.animation_steps[c.current_step + 1]
    ELSE IF Len(c.control_points) >= 2
    THEN Positions(c.control_points)
    ELSE IF Len(c.control_points) = 1
    THEN <<c.control_points[1].position>>
    ELSE <<>>

\* ---- main: the frame loop ----------------------------------------------
\* the state main builds before the loop: ChaikinCurve::new(), dragging = false
Init ==
    /\ control_points = ChaikinCurve_new.control_points
    /\ animation_steps = ChaikinCurve_new.animation_steps
    /\ current_step = ChaikinCurve_new.current_step
    /\ animating = ChaikinCurve_new.animating
    /\ elapsed = ChaikinCurve_new.elapsed
    /\ dragging = FALSE
    /\ pc = "mouse"
    /\ lastOp = "new"
    /\ before = Snapshot
    /\ arg = <<>>
    /\ ret = NoValue
    /\ buffer = <<>>
    /\ plotted = <<>>
    /\ line = NoLine

\* get_mouse_pos returns None: the whole mouse block is skipped
MouseNone ==
    /\ pc = "mouse"
    /\ pc' = "enter"
    /\ lastOp' = "no_pointer"
    /\ before' = Snapshot
    /\ UNCHANGED rasterVars
    /\ UNCHANGED <<control_points, animation_steps, current_step, animating,
                   elapsed, dragging>>

\* button down, not dragging, select_point_at hits a point
MouseSelect ==
    /\ pc = "mouse"
    /\ ~dragging
    /\ \E m \in MousePositions :
          /\ select_point_at_result(chaikin, AsF32(m[1]), AsF32(m[2]))
          /\ Store(select_point_at(chaikin, AsF32(m[1]), AsF32(m[2])))
    /\ dragging' = TRUE
    /\ pc' = "enter"
    /\ lastOp' = "select"
    /\ before' = Snapshot
    /\ UNCHANGED rasterVars

\* button down, not dragging, select_point_at misses: add_point, reset_animation
MouseAdd ==
    /\ pc = "mouse"
    /\ ~dragging
    /\ Len(control_points) < MaxPoints
    /\ \E m \in MousePositions :
          /\ ~select_point_at_result(chaikin, AsF32(m[1]), AsF32(m[2]))
          /\ Store(reset_animation(
                add_point(select_point_at(chaikin, AsF32(m[1]), AsF32(m[2])),
                          AsF32(m[1]), AsF32(m[2]))))
    /\ dragging' = TRUE
    /\ pc' = "enter"
    /\ lastOp' = "add"
    /\ before' = Snapshot
    /\ UNCHANGED rasterVars

\* the else branch without the regeneration of lines 274-276
DragBranch_NoRegen(c, x, y) == move_selected_point(c, x, y)

\* the else branch resetting the animation as the add branch does
DragBranch_Reset(c, x, y) == reset_animation(move_selected_point(c, x, y))

\* the else branch of `if !dragging`: move, then regenerate if animating
DragBranch(c, x, y) ==
    LET moved == move_selected_point(c, x, y)
    IN IF moved.animating THEN generate_animation_steps(moved) ELSE moved

\* button down while dragging
MouseDrag ==
    /\ pc = "mouse"
    /\ dragging
    /\ \E m \in MousePositions :
          Store(DragBranch(chaikin, AsF32(m[1]), AsF32(m[2])))
    /\ pc' = "enter"
    /\ lastOp' = "drag"
    /\ before' = Snapshot
    /\ UNCHANGED rasterVars
    /\ UNCHANGED dragging

\* the release branch without deselect_all_points (line 280)
MouseRelease_NoDeselect ==
    /\ pc = "mouse"
    /\ dragging
    /\ dragging' = FALSE
    /\ pc' = "enter"
    /\ lastOp' = "release"
    /\ before' = Snapshot
    /\ UNCHANGED <<control_points, animation_steps, current_step, animating,
                   elapsed>>
    /\ UNCHANGED rasterVars

\* button up while dragging: deselect_all_points, dragging = false
MouseRelease ==
    /\ pc = "mouse"
    /\ dragging
    /\ Store(deselect_all_points(chaikin))
    /\ dragging' = FALSE
    /\ pc' = "enter"
    /\ lastOp' = "release"
    /\ before' = Snapshot
    /\ UNCHANGED rasterVars

\* button up, not dragging: nothing to do
MouseHover ==
    /\ pc = "mouse"
    /\ ~dragging
    /\ pc' = "enter"
    /\ lastOp' = "hover"
    /\ before' = Snapshot
    /\ UNCHANGED rasterVars
    /\ UNCHANGED <<control_points, animation_steps, current_step, animating,
                   elapsed, dragging>>

\* Enter pressed this frame: start_animation
KeyEnter ==
    /\ pc = "enter"
    /\ Store(start_animation(chaikin))
    /\ pc' = "clear"
    /\ lastOp' = "start_animation"
    /\ before' = Snapshot
    /\ UNCHANGED rasterVars
    /\ UNCHANGED dragging

NoKeyEnter ==
    /\ pc = "enter"
    /\ pc' = "clear"
    /\ lastOp' = "no_enter"
    /\ before' = Snapshot
    /\ UNCHANGED rasterVars
    /\ UNCHANGED <<control_points, animation_steps, current_step, animating,
                   elapsed, dragging>>

\* C pressed this frame: clear_points
KeyC ==
    /\ pc = "clear"
    /\ Store(clear_points(chaikin))
    /\ pc' = "update"
    /\ lastOp' = "clear_points"
    /\ before' = Snapshot
    /\ UNCHANGED rasterVars
    /\ UNCHANGED dragging

NoKeyC ==
    /\ pc = "clear"
    /\ pc' = "update"
    /\ lastOp' = "no_clear"
    /\ before' = Snapshot
    /\ UNCHANGED rasterVars
    /\ UNCHANGED <<control_points, animation_steps, current_step, animating,
                   elapsed, dragging>>

\* chaikin.update_animation(), once per frame
UpdateAnimation ==
    /\ pc = "update"
    /\ Store(update_animation(chaikin))
    /\ pc' = "draw"
    /\ lastOp' = "update_animation"
    /\ before' = Snapshot
    /\ UNCHANGED rasterVars
    /\ UNCHANGED dragging

\* the curve is read with get_current_points (which indexes animation_steps
\* at current_step) and drawn, and the frame is presented; presenting takes
\* the rest of the frame time
Draw ==
    /\ pc = "draw"
    /\ Len(get_current_points(chaikin)) >= 0
    /\ \E d \in FrameTimes : elapsed' = Min(elapsed + d, MaxElapsed)
    /\ pc' = "mouse"
    /\ lastOp' = "draw"
    /\ before' = Snapshot
    /\ UNCHANGED rasterVars
    /\ UNCHANGED <<control_points, animation_steps, current_step, animating,
                   dragging>>

Next ==
    \/ MouseNone
    \/ MouseSelect
    \/ MouseAdd
    \/ MouseDrag
    \/ MouseRelease
    \/ MouseHover
    \/ KeyEnter
    \/ NoKeyEnter
    \/ KeyC
    \/ NoKeyC
    \/ UpdateAnimation
    \/ Draw

Spec == Init /\ [][Next]_vars

TypeOK ==
    /\ current_step \in 0..MAX_ANIMATION_STEPS
    /\ animating \in BOOLEAN
    /\ dragging \in BOOLEAN
    /\ elapsed \in 0..MaxElapsed
    /\ Len(control_points) <= MaxPoints

\* the frame loop never stops while the window is open: every phase of the
\* loop body is left, whatever the input of the frame is
FairSpec ==
    /\ Spec
    /\ WF_vars(MouseNone)
    /\ WF_vars(NoKeyEnter)
    /\ WF_vars(NoKeyC)
    /\ WF_vars(UpdateAnimation)
    /\ WF_vars(Draw)

\* ---- the operations of ChaikinCurve called one by one ----------------------
\* a call of a method of ChaikinCurve with the arguments a: c is the value it
\* leaves and r the value it returns
Call(name, a, c, r) ==
    /\ Store(c)
    /\ lastOp' = name
    /\ before' = Snapshot
    /\ arg' = a
    /\ ret' = r
    /\ UNCHANGED <<dragging, pc, buffer, plotted, line>>

\* add_point at one of the coordinates of S
CallAddPointIn(S) ==
    /\ Len(control_points) < MaxPoints
    /\ \E m \in S :
          Call("add_point", m,
               add_point(chaikin, AsF32(m[1]), AsF32(m[2])), NoValue)

CallAddPoint == CallAddPointIn(CurvePositions)

CallClearPoints == Call("clear_points", <<>>, clear_points(chaikin), NoValue)

CallResetAnimation ==
    Call("reset_animation", <<>>, reset_animation(chaikin), NoValue)

CallStartAnimation ==
    Call("start_animation", <<>>, start_animation(chaikin), NoValue)

\* update_animation called after some time d has passed
CallUpdateAnimation ==
    \E d \in {0} \cup FrameTimes :
        Call("update_animation", <<>>,
             update_animation(
                 [chaikin EXCEPT !.elapsed = Min(@ + d, MaxElapsed)]),
             NoValue)

CallGetCurrentPoints ==
    Call("get_current_points", <<>>, chaikin, get_current_points(chaikin))

CurveNext ==
    \/ CallAddPoint
    \/ CallClearPoints
    \/ CallResetAnimation
    \/ CallStartAnimation
    \/ CallUpdateAnimation
    \/ CallGetCurrentPoints

\* add_point, the animation methods and get_current_points called in any
\* order on ChaikinCurve::new()
CurveSpec == Init /\ [][CurveNext]_vars

EditAddPoint == CallAddPointIn(EditPositions)

CallSelectPointAt ==
    \E m \in SelectProbes :
        Call("select_point_at", m,
             select_point_at(chaikin, AsF32(m[1]), AsF32(m[2])),
             select_point_at_result(chaikin, AsF32(m[1]), AsF32(m[2])))

CallDeselectAllPoints ==
    Call("deselect_all_points", <<>>, deselect_all_points(chaikin), NoValue)

CallMoveSelectedPoint ==
    \E m \in EditPositions :
        Call("move_selected_point", m,
             move_selected_point(chaikin, AsF32(m[1]), AsF32(m[2])), NoValue)

EditNext ==
    \/ EditAddPoint
    \/ CallSelectPointAt
    \/ CallDeselectAllPoints
    \/ CallMoveSelectedPoint
    \/ CallStartAnimation

\* the editing methods and start_animation called in any order on
\* ChaikinCurve::new()
EditSpec == Init /\ [][EditNext]_vars

\* ---- the rasterizer: draw_point, draw_circle, draw_line ---------------------
\* buf with color stored at index i; an index outside 0..WIDTH*HEIGHT-1, at
\* which the program panics, is kept so that the write is visible
Write(buf, i, color) ==
    [j \in (DOMAIN buf) \cup {i} |-> IF j = i THEN color ELSE buf[j]]

\* draw_point with <= for < in the test of x
draw_point_Inclusive(buf, x, y, color) ==
    IF x >= 0 /\ x <= WIDTH /\ y >= 0 /\ y < HEIGHT
    THEN Write(buf, y * WIDTH + x, color)
    ELSE buf

draw_point(buf, x, y, color) ==
    IF x >= 0 /\ x < WIDTH /\ y >= 0 /\ y < HEIGHT
    THEN Write(buf, y * WIDTH + x, color)
    ELSE buf

\* draw_point called with one color on each of pts: every index one of the
\* calls writes holds the color, whatever the order of the calls
DrawPoints(buf, pts, color) ==
    LET written == UNION {DOMAIN draw_point(<<>>, pts[k][1], pts[k][2], color)
                            : k \in 1..Len(pts)}
    IN  [j \in (DOMAIN buf) \cup written |-> IF j \in written THEN color ELSE buf[j]]

\* the offsets (x, y) the two loops of draw_circle visit, in their order
CircleOffsets(radius) ==
    LET side == 2 * radius + 1
    IN  [k \in 1..(side * side) |->
            <<((k - 1) % side) - radius, ((k - 1) \div side) - radius>>]

\* the points draw_circle passes to draw_point
CirclePoints(center_x, center_y, radius) ==
    LET inside(o) == o[1] * o[1] + o[2] * o[2] <= radius * radius
        offs == SelectSeq(CircleOffsets(radius), inside)
    IN  [k \in 1..Len(offs) |-> <<center_x + offs[k][1], center_y + offs[k][2]>>]

draw_circle(buf, center_x, center_y, radius, color) ==
    DrawPoints(buf, CirclePoints(center_x, center_y, radius), color)

Abs(v) == IF v < 0 THEN -v ELSE v

\* the locals of draw_line at the head of its loop
LineLocals(x0, y0, x1, y1, color) ==
    LET dx == Abs(x1 - x0)
        dy == -Abs(y1 - y0)
    IN  [pc |-> "loop", x0 |-> x0, y0 |-> y0, x1 |-> x1, y1 |-> y1,
         color |-> color, dx |-> dx, dy |-> dy,
         sx |-> IF x0 < x1 THEN 1 ELSE -1,
         sy |-> IF y0 < y1 THEN 1 ELSE -1,
         err |-> dx + dy, x |-> x0, y |-> y0]

\* the rest of one pass of the loop of draw_line after draw_point(x, y)
LinePass(l) ==
    IF l.x = l.x1 /\ l.y = l.y1
    THEN [l EXCEPT !.pc = "done"]
    ELSE LET e2 == 2 * l.err
             stepx == e2 >= l.dy
             l1 == IF stepx /\ l.x # l.x1
                   THEN [l EXCEPT !.err = @ + l.dy, !.x = @ + l.sx]
                   ELSE l
             stepy == e2 <= l.dx
         IN  IF stepx /\ l.x = l.x1
             THEN [l EXCEPT !.pc = "done"]
             ELSE IF stepy /\ l1.y = l1.y1
             THEN [l1 EXCEPT !.pc = "done"]
             ELSE IF stepy
             THEN [l1 EXCEPT !.err = @ + l1.dx, !.y = @ + l1.sy]
             ELSE l1

\* the pixel coordinates and colors the rasterizer is called with
PointXs == {-1, 0, WIDTH - 1, WIDTH}
PointYs == {-1, 0, HEIGHT - 1, HEIGHT}
CircleRadii == {3, POINT_RADIUS}
Colors == {"0xFFFF0000", "0xFFFFFFFF", "0xFF00FF00"}
LineColor == "0xFF00FF00"
LineEnds ==
    ((-1..(LineSpan - 1)) \X (-1..(LineSpan - 1)))
      \cup (((WIDTH - LineSpan)..WIDTH) \X ((HEIGHT - LineSpan)..HEIGHT))
\* lines within one corner of the window, and one across the window
Lines ==
    {<<e[1][1], e[1][2], e[2][1], e[2][2]>> :
        e \in {p \in LineEnds \X LineEnds : Abs(p[2][1] - p[1][1]) <= LineSpan}}
      \cup {<<-1, -1, WIDTH, HEIGHT>>}

\* what a rasterizer call leaves alone
curveVars == <<control_points, animation_steps, current_step, animating,
               elapsed, dragging, pc, before, ret>>

\* no draw_line is running
Idle == line.pc # "loop"

\* the loop over the buffer at the start of a frame
BufferClear ==
    /\ Idle
    /\ lastOp # "buffer_clear"
    /\ buffer' = <<>>
    /\ plotted' = <<>>
    /\ line' = NoLine
    /\ arg' = <<>>
    /\ lastOp' = "buffer_clear"
    /\ UNCHANGED curveVars

\* the buffer is as the clear of the frame left it
Cleared == lastOp \in {"new", "buffer_clear"}

CallDrawPoint ==
    /\ Cleared
    /\ \E x \in PointXs, y \in PointYs, color \in Colors :
          /\ buffer' = draw_point(buffer, x, y, color)
          /\ plotted' = <<<<x, y>>>>
          /\ arg' = <<x, y, color>>
    /\ lastOp' = "draw_point"
    /\ UNCHANGED <<curveVars, line>>

CallDrawCircle ==
    /\ Cleared
    /\ \E x \in PointXs, y \in PointYs, radius \in CircleRadii, color \in Colors :
          /\ buffer' = draw_circle(buffer, x, y, radius, color)
          /\ plotted' = CirclePoints(x, y, radius)
          /\ arg' = <<x, y, radius, color>>
    /\ lastOp' = "draw_circle"
    /\ UNCHANGED <<curveVars, line>>

\* draw_line up to the head of its loop
LineStart ==
    /\ Cleared
    /\ \E e \in Lines :
          /\ line' = LineLocals(e[1], e[2], e[3], e[4], LineColor)
          /\ arg' = <<e[1], e[2], e[3], e[4], LineColor>>
    /\ lastOp' = "draw_line"
    /\ UNCHANGED <<curveVars, buffer, plotted>>

\* the loop of draw_line leaving before draw_point when the end is reached
LineStep_BreakFirst ==
    /\ line.pc = "loop"
    /\ IF line.x = line.x1 /\ line.y = line.y1
       THEN UNCHANGED <<buffer, plotted>>
       ELSE /\ buffer' = draw_point(buffer, line.x, line.y, line.color)
            /\ plotted' = Append(plotted, <<line.x, line.y>>)
    /\ line' = LinePass(line)
    /\ UNCHANGED <<curveVars, arg, lastOp>>

\* one pass of the loop of draw_line
LineStep ==
    /\ line.pc = "loop"
    /\ buffer' = draw_point(buffer, line.x, line.y, line.color)
    /\ plotted' = Append(plotted, <<line.x, line.y>>)
    /\ line' = LinePass(line)
    /\ UNCHANGED <<curveVars, arg, lastOp>>

RasterNext ==
    \/ BufferClear
    \/ CallDrawPoint
    \/ CallDrawCircle
    \/ LineStart
    \/ LineStep

\* the rasterizer called on a cleared buffer
RasterSpec == Init /\ [][RasterNext]_vars

\* a running draw_line goes on
RasterFairSpec == RasterSpec /\ WF_vars(LineStep)

\* ---- generate_animation_steps and chaikin_step on given control points ----
\* the control points add_point builds at the coordinates of GenPositions
GenInputs ==
    UNION {[1..n -> {ControlPoint_new(AsF32(m[1]), AsF32(m[2])) : m \in GenPositions}]
             : n \in 0..MaxPoints}

GenInit ==
    /\ control_points \in GenInputs
    /\ animation_steps = ChaikinCurve_new.animation_steps
    /\ current_step = ChaikinCurve_new.current_step
    /\ animating = ChaikinCurve_new.animating
    /\ elapsed = ChaikinCurve_new.elapsed
    /\ dragging = FALSE
    /\ pc = "mouse"
    /\ lastOp = "new"
    /\ before = Snapshot
    /\ arg = <<>>
    /\ ret = NoValue
    /\ buffer = <<>>
    /\ plotted = <<>>
    /\ line = NoLine

\* generate_animation_steps run on the control points
CallGenerateAnimationSteps ==
    /\ animation_steps = <<>>
    /\ Call("generate_animation_steps", <<>>,
            generate_animation_steps(chaikin), NoValue)

\* generate_animation_steps run once more on the same control points
CallGenerateAgain ==
    /\ animation_steps # <<>>
    /\ Call("generate_animation_steps_again", <<>>,
            generate_animation_steps(chaikin), NoValue)

\* chaikin_step called on what generate_animation_steps passes to it: the
\* control-point positions or one of the levels but the last
CallChaikinStep ==
    \E points \in {Positions(control_points)}
                  \cup {animation_steps[k] :
                          k \in 1..Min(Len(animation_steps), MAX_ANIMATION_STEPS)} :
        Call("chaikin_step", points, chaikin, chaikin_step(points))

GenNext ==
    \/ CallGenerateAnimationSteps
    \/ CallGenerateAgain
    \/ CallChaikinStep
    \/ CallStartAnimation

\* generate_animation_steps, start_animation and chaikin_step run on every
\* sequence of at most MaxPoints control points
GenSpec == GenInit /\ [][GenNext]_vars

\* ---- properties --------------------------------------------------------
\* steps is the full sequence of levels of the polyline points: level 0 is
\* points and every further level is the Chaikin refinement of the one before
IsLevelsOf(steps, points) ==
    /\ Len(steps) = 8
    /\ steps[1] = points
    /\ \A k \in 1..7 : steps[k + 1] = chaikin_step(steps[k])

\* the points (0,0), (10,0), (20,0)
ThreePoints == <<<<0, 0>>, <<AsF32(10), 0>>, <<AsF32(20), 0>>>>

\* C11: get_current_points returns the level at current_step when animating
\* with steps; otherwise the control-point positions in insertion order when
\* there are 2 or more, the single point when there is 1, and the empty
\* sequence when there is none; after adding (0,0), (10,0), (20,0) without
\* an animation it returns these three points in this order.
C11_CurrentPoints ==
    lastOp = "get_current_points" =>
        /\ IF animating /\ animation_steps # <<>>
           THEN ret = animation_steps[current_step + 1]
           ELSE IF Len(control_points) >= 2
           THEN /\ Len(ret) = Len(control_points)
                /\ \A i \in 1..Len(control_points) :
                      ret[i] = control_points[i].position
           ELSE IF Len(control_points) = 1
           THEN ret = <<control_points[1].position>>
           ELSE ret = <<>>
        /\ (~animating /\ Positions(control_points) = ThreePoints)
              => ret = <<<<0, 0>>, <<10 * Scale, 0>>, <<20 * Scale, 0>>>>

\* (0,0), (10,0), (20,0) were added, no animation was started, and
\* get_current_points returned them
C11_Witness ==
    /\ lastOp = "get_current_points"
    /\ ~animating
    /\ animation_steps = <<>>
    /\ Positions(control_points) = ThreePoints
    /\ ret = ThreePoints

\* control point i lies within radius 5 of the pixel m, boundary included
Within5(i, m) ==
    LET dx == control_points[i].position[1] \div Scale - m[1]
        dy == control_points[i].position[2] \div Scale - m[2]
    IN dx * dx + dy * dy <= 5 * 5

\* C12: select_point_at(x,y) returns true iff some control point is within
\* radius 5 of (x,y), boundary included; then exactly the earliest-inserted
\* such point gets selected = TRUE and every other selected flag and every
\* position is unchanged; when it returns false nothing changes.
C12_SelectPointAt ==
    [][lastOp' = "select_point_at" =>
          LET hits == {i \in 1..Len(control_points) : Within5(i, arg')}
          IN /\ ret' = (hits # {})
             /\ Len(control_points') = Len(control_points)
             /\ \A i \in 1..Len(control_points) :
                   /\ control_points'[i].position = control_points[i].position
                   /\ control_points'[i].selected =
                         IF i \in hits /\ (\A j \in hits : i <= j)
                         THEN TRUE
                         ELSE control_points[i].selected
             /\ UNCHANGED <<animation_steps, current_step, animating>>
      ]_vars

\* (3,4) was probed with a point at (0,0), at distance exactly 5, inserted
\* before a point at (3,4): the first one was selected and the second was not
C12_Witness ==
    /\ lastOp = "select_point_at"
    /\ arg = <<3, 4>>
    /\ ret = TRUE
    /\ Len(control_points) >= 2
    /\ control_points[1].position = <<0, 0>>
    /\ control_points[1].selected
    /\ control_points[2].position = <<AsF32(3), AsF32(4)>>
    /\ ~control_points[2].selected

\* C13: move_selected_point(x,y) puts every selected control point at (x,y)
\* and changes no unselected point's position, no selected flag, neither the
\* number nor the order of the points, nor the animation state; with no
\* point selected it changes nothing.
C13_MoveSelectedPoint ==
    [][lastOp' = "move_selected_point" =>
          /\ Len(control_points') = Len(control_points)
          /\ \A i \in 1..Len(control_points) :
                /\ control_points'[i].selected = control_points[i].selected
                /\ control_points'[i].position =
                      IF control_points[i].selected
                      THEN <<arg'[1] * Scale, arg'[2] * Scale>>
                      ELSE control_points[i].position
          /\ UNCHANGED <<animation_steps, current_step, animating>>
          /\ (\A i \in 1..Len(control_points) : ~control_points[i].selected)
                => control_points' = control_points
      ]_vars

\* two selected points were moved to (3,4) during an animation whose steps
\* still start at (0,0), and the unselected third point stayed at (0,0)
C13_Witness ==
    /\ lastOp = "move_selected_point"
    /\ arg = <<3, 4>>
    /\ animating
    /\ animation_steps[1][1] = <<0, 0>>
    /\ Len(control_points) = 3
    /\ control_points[1].selected /\ control_points[2].selected
    /\ control_points[1].position = <<AsF32(3), AsF32(4)>>
    /\ control_points[2].position = <<AsF32(3), AsF32(4)>>
    /\ ~control_points[3].selected
    /\ control_points[3].position = <<0, 0>>

\* C14: generate_animation_steps on 2 or more control points leaves exactly 8
\* levels, level 0 being the control-point positions in insertion order and
\* every level k+1, k in 0..6, being chaikin_step of level k; the levels are
\* determined by the positions, so a second run leaves the same levels.
C14_GenerateAnimationSteps ==
    (/\ lastOp \in {"generate_animation_steps", "generate_animation_steps_again"}
     /\ Len(control_points) >= 2)
    => /\ Len(animation_steps) = MAX_ANIMATION_STEPS + 1
       /\ IsLevelsOf(animation_steps, Positions(control_points))

\* generate_animation_steps has run twice on three control points
C14_Witness ==
    /\ lastOp = "generate_animation_steps_again"
    /\ Len(control_points) = 3
    /\ Len(animation_steps) = 8
    /\ Len(animation_steps[8]) = 384

\* C15: on n >= 3 points chaikin_step returns 2 + 2*(n-1) points, the first
\* being the first input point and the last being the last input point.
C15_ChaikinStepShape ==
    (lastOp = "chaikin_step" /\ Len(arg) >= 3)
    => /\ Len(ret) = 2 + 2 * (Len(arg) - 1)
       /\ ret[1] = arg[1]
       /\ ret[Len(ret)] = arg[Len(arg)]

\* chaikin_step was called on a level of 6 points with distinct ends
C15_Witness ==
    /\ lastOp = "chaikin_step"
    /\ Len(arg) = 6
    /\ Len(ret) = 12
    /\ arg[1] # arg[6]

\* C16: on at most 2 points chaikin_step returns its input; so the 8 levels
\* generated for exactly 2 control points all are the two control points.
C16_ChaikinStepIdentity ==
    /\ (lastOp = "chaikin_step" /\ Len(arg) <= 2) => ret = arg
    /\ (Len(control_points) = 2 /\ animation_steps # <<>>)
          => /\ Len(animation_steps) = 8
             /\ \A k \in 1..8 : animation_steps[k] = Positions(control_points)

\* an animation was started on two distinct control points
C16_Witness ==
    /\ lastOp = "start_animation"
    /\ animating
    /\ Len(control_points) = 2
    /\ control_points[1].position # control_points[2].position
    /\ animation_steps[8] = Positions(control_points)

\* v quarters of a pixel
Quarters(v) == v * (Scale \div 4)

\* C17: on n >= 3 points, for every pair i of consecutive input points
\* (p0,p1), output index 2i+1 is q = 0.75*p0 + 0.25*p1 and index 2i+2 is
\* r = 0.25*p0 + 0.75*p1 (indices from 0); for the control points (0,0),
\* (10,0), (20,0) level 1 is (0,0),(2.5,0),(7.5,0),(12.5,0),(17.5,0),(20,0).
C17_ChaikinStepInterior ==
    /\ (lastOp = "chaikin_step" /\ Len(arg) >= 3)
          => \A i \in 1..(Len(arg) - 1) : \A c \in 1..2 :
                /\ 4 * ret[2 * i][c] = 3 * arg[i][c] + arg[i + 1][c]
                /\ 4 * ret[2 * i + 1][c] = arg[i][c] + 3 * arg[i + 1][c]
    /\ (Positions(control_points) = ThreePoints /\ animation_steps # <<>>)
          => animation_steps[2] =
               << <<0, 0>>, <<Quarters(10), 0>>, <<Quarters(30), 0>>,
                  <<Quarters(50), 0>>, <<Quarters(70), 0>>, <<Quarters(80), 0>> >>

\* the animation was started on (0,0), (10,0), (20,0)
C17_Witness ==
    /\ lastOp = "start_animation"
    /\ animating
    /\ Positions(control_points) = ThreePoints
    /\ animation_steps[2][3] = <<Quarters(30), 0>>

\* (x, y) is a pixel of the window
InWindow(p) == p[1] >= 0 /\ p[1] < WIDTH /\ p[2] >= 0 /\ p[2] < HEIGHT

\* the (x, y) draw_point was called with
PlottedSet == {plotted[k] : k \in 1..Len(plotted)}

\* C18: draw_point writes the color at index y*WIDTH + x exactly when
\* 0 <= x < WIDTH and 0 <= y < HEIGHT: (WIDTH-1, HEIGHT-1) is written, at
\* (WIDTH, 0) and at (-1, y) nothing is; so every index of the buffer written
\* by draw_point, draw_circle or draw_line lies in 0..WIDTH*HEIGHT-1.
C18_DrawPoint ==
    /\ DOMAIN buffer \subseteq 0..(WIDTH * HEIGHT - 1)
    /\ DOMAIN buffer = {p[2] * WIDTH + p[1] : p \in {q \in PlottedSet : InWindow(q)}}
    /\ \A i \in DOMAIN buffer : buffer[i] = arg[Len(arg)]
    /\ lastOp = "draw_point" =>
          /\ (arg[1] = WIDTH - 1 /\ arg[2] = HEIGHT - 1)
                => DOMAIN buffer = {WIDTH * HEIGHT - 1}
          /\ (arg[1] = WIDTH /\ arg[2] = 0) => DOMAIN buffer = {}
          /\ arg[1] = -1 => DOMAIN buffer = {}

\* draw_point wrote the last pixel of the buffer
C18_Witness ==
    /\ lastOp = "draw_point"
    /\ arg[1] = WIDTH - 1
    /\ arg[2] = HEIGHT - 1
    /\ DOMAIN buffer = {WIDTH * HEIGHT - 1}

\* what holds of draw_line inside its loop and once it has returned
LinePlots ==
    /\ line.pc = "loop" =>
          Len(plotted) <= (IF line.dx > -line.dy THEN line.dx ELSE -line.dy)
    /\ line.pc = "done" =>
          /\ Len(plotted) >= 1
          /\ plotted[1] = <<line.x0, line.y0>>
          /\ plotted[Len(plotted)] = <<line.x1, line.y1>>
          /\ (line.x0 = line.x1 /\ line.y0 = line.y1) =>
                /\ plotted = <<<<line.x0, line.y0>>>>
                /\ Cardinality(DOMAIN buffer) <= 1
          /\ line.dx = 0 =>
                /\ Len(plotted) = 1 - line.dy
                /\ \A k \in 1..Len(plotted) :
                      plotted[k] = <<line.x0, line.y0 + line.sy * (k - 1)>>
          /\ line.dy = 0 =>
                /\ Len(plotted) = 1 + line.dx
                /\ \A k \in 1..Len(plotted) :
                      plotted[k] = <<line.x0 + line.sx * (k - 1), line.y0>>

\* C19: draw_line terminates for all endpoints, after at most
\* max(|x1-x0|, |y1-y0|) + 1 passes, and plots both endpoints; with dx = 0 or
\* dy = 0 it plots the straight run between them; with coincident endpoints
\* it plots exactly one pixel.
C19_DrawLine ==
    /\ []LinePlots
    /\ (line.pc = "loop") ~> (line.pc = "done")

\* draw_line has returned from the line across the window
C19_Witness ==
    /\ line.pc = "done"
    /\ line.x0 = -1
    /\ line.x1 = WIDTH
    /\ Len(plotted) = WIDTH + 2
    /\ plotted[Len(plotted)] = <<WIDTH, HEIGHT>>

\* the indices of the selected control points
Selected(points) == {i \in 1..Len(points) : points[i].selected}

\* C20: in every state of the frame loop, frames without pointer data and
\* clear_points during a drag included, at most one control point is selected
\* and none is while dragging is false; so the move_selected_point of a drag
\* moves at most one control point, the selected one, and never two points
\* onto the pointer's coordinate.
C20_SingleSelection ==
    /\ [](/\ Cardinality(Selected(control_points)) <= 1
          /\ ~dragging => Selected(control_points) = {})
    /\ [][lastOp' = "drag" =>
            /\ Len(control_points') = Len(control_points)
            /\ LET moved == {i \in 1..Len(control_points) :
                               control_points'[i].position # control_points[i].position}
               IN  /\ Cardinality(moved) <= 1
                   /\ moved \subseteq Selected(control_points)
         ]_vars

\* a drag moved the selected one of two control points onto the position of
\* the other, which stayed unselected where it was
C20_Witness ==
    /\ lastOp = "drag"
    /\ dragging
    /\ Len(control_points) = 2
    /\ Selected(control_points) = {1}
    /\ control_points[1].position = control_points[2].position
    /\ control_points[1].position = <<AsF32(10), AsF32(20)>>

\* C1: in every state of the frame loop, while animating is true level 0 of
\* animation_steps is the sequence of the current control-point positions in
\* insertion order: no level shown comes from positions that have changed.
C1_NoStaleSteps ==
    animating =>
        /\ animation_steps # <<>>
        /\ animation_steps[1] = Positions(control_points)

\* a drag has just moved the selected first point onto the second one while
\* the animation was running
C1_Witness ==
    /\ lastOp = "drag"
    /\ animating
    /\ before.animating
    /\ Len(control_points) >= 2
    /\ control_points[1].selected
    /\ control_points[1].position = control_points[2].position

\* C2 as stated: right after every regeneration (point added, drag while the
\* animation is active, start_animation) current_step is 0.
C2_RegenerationResetsStep ==
    \/ lastOp = "add"
    \/ /\ lastOp = "drag"
       /\ before.animating
       /\ \E i \in 1..Len(control_points) : control_points[i].selected
    \/ lastOp = "start_animation" /\ animating
    => current_step = 0

\* C2 amended: start_animation and the click that adds a point leave
\* current_step = 0 whatever it was; the regeneration of a drag while the
\* animation is active leaves current_step as it was.
C2_StepAfterRegeneration ==
    [][/\ (pc = "enter" /\ lastOp' = "start_animation" /\ animating')
            => current_step' = 0
       /\ (pc = "mouse" /\ lastOp' = "add") => current_step' = 0
       /\ (pc = "mouse" /\ lastOp' = "drag" /\ animating)
            => /\ current_step' = current_step
               /\ IsLevelsOf(animation_steps', Positions(control_points'))
      ]_vars

\* a drag regenerated the steps of an animation that was past level 0
C2_Witness ==
    /\ lastOp = "drag"
    /\ before.animating
    /\ before.current_step > 0
    /\ current_step = before.current_step
    /\ \E i \in 1..Len(control_points) : control_points[i].selected

\* C3 as stated: every step that takes animating from true to false is a
\* clear_points step.
C3_OnlyClearStops ==
    [][(animating /\ ~animating') => lastOp' = "clear_points"]_vars

\* C3 amended: every step that takes animating from true to false is a
\* clear_points step or a click that adds a point; selecting, dragging,
\* releasing, start_animation and update_animation never stop the animation.
C3_OnlyClearOrAddStops ==
    [][(animating /\ ~animating') => lastOp' \in {"clear_points", "add"}]_vars

\* a click added a third point and stopped the running animation
C3_Witness ==
    /\ lastOp = "add"
    /\ before.animating
    /\ ~animating
    /\ Len(control_points) = 3

\* C4: animating = TRUE implies animation_steps is non-empty.
C4_AnimatingHasSteps ==
    animating => animation_steps # <<>>

\* the animation has just been restarted over a running one
C4_Witness ==
    /\ lastOp = "start_animation"
    /\ before.animating
    /\ animating
    /\ animation_steps # <<>>

\* C5: while animating with steps, current_step is an index of animation_steps.
C5_StepInRange ==
    (animating /\ animation_steps # <<>>) => current_step < Len(animation_steps)

\* the steps were regenerated by a drag while the last level was shown
C5_Witness ==
    /\ lastOp = "drag"
    /\ animating
    /\ current_step = Len(animation_steps) - 1
    /\ \E i \in 1..Len(control_points) : control_points[i].selected

\* C6: animation_steps has either no level or MAX_ANIMATION_STEPS + 1 = 8.
C6_StepCount ==
    /\ MAX_ANIMATION_STEPS + 1 = 8
    /\ Len(animation_steps) \in {0, 8}

\* the steps were generated by start_animation and generated again by a drag
C6_Witness ==
    /\ lastOp = "drag"
    /\ before.animating
    /\ Len(animation_steps) = 8
    /\ control_points[1].selected

\* C7: an update_animation call while animating with steps leaves
\* current_step as it is when less than 500 ms have elapsed, and otherwise
\* advances it by exactly 1 modulo 8 and resets the timer, however long the
\* elapsed time; a call while not animating or without steps changes nothing.
C7_UpdateAnimation ==
    [][(pc = "update" /\ lastOp' = "update_animation") =>
          IF animating /\ animation_steps # <<>>
          THEN IF elapsed < 500
               THEN /\ current_step' = current_step
                    /\ elapsed' = elapsed
               ELSE /\ current_step' = (current_step + 1) % 8
                    /\ elapsed' = 0
          ELSE UNCHANGED <<control_points, animation_steps, current_step,
                           animating, elapsed>>
      ]_vars

\* two step durations had elapsed and update_animation advanced one level
C7_Witness ==
    /\ lastOp = "update_animation"
    /\ before.animating
    /\ before.elapsed >= 2 * 500
    /\ current_step = before.current_step + 1
    /\ elapsed = 0

\* C8 as stated, its order part: while the animation is neither cleared nor
\* stopped by an added point, current_step only stays or moves to the next
\* level in the cycle 0,1,...,7,0.
C8_CyclicOrder ==
    [][(animating /\ animating') =>
          current_step' \in {current_step, (current_step + 1) % 8}]_vars

\* a step of the frame loop that starts the animation again
Restarted == pc = "clear" /\ lastOp = "start_animation"

\* C8 amended: while the animation is neither cleared, nor stopped by an added
\* point, nor started again by start_animation, current_step only stays or
\* moves to the next level in the cycle 0,1,...,7,0, and, the frame loop
\* running for ever, every level 0..7 is shown again and again.
C8_LoopsForever ==
    /\ [][(animating /\ animating' /\ lastOp' # "start_animation") =>
             current_step' \in {current_step, (current_step + 1) % 8}]_vars
    /\ \A k \in 0..7 :
          [](animating /\ pc = "update"
               => <>(current_step = k \/ ~animating \/ Restarted))

\* update_animation wrapped from the last level to level 0
C8_Witness ==
    /\ lastOp = "update_animation"
    /\ animating
    /\ before.current_step = 7
    /\ current_step = 0

\* C9: start_animation with fewer than 2 control points changes nothing, and
\* no animation is running then; with 2 or more it leaves animating = TRUE,
\* current_step = 0 and the steps generated from the current control points.
C9_StartAnimation ==
    [][(pc = "enter" /\ lastOp' = "start_animation") =>
          IF Len(control_points) < 2
          THEN /\ ~animating
               /\ UNCHANGED <<control_points, animation_steps, current_step,
                              animating>>
          ELSE /\ animating'
               /\ current_step' = 0
               /\ control_points' = control_points
               /\ IsLevelsOf(animation_steps', Positions(control_points))
      ]_vars

\* start_animation was called on three points over a running animation
C9_Witness ==
    /\ lastOp = "start_animation"
    /\ before.animating
    /\ before.current_step > 0
    /\ Len(control_points) = 3
    /\ animating
    /\ current_step = 0

\* C10: right after clear_points there is no control point, no animation, no
\* step, current_step is 0 and get_current_points returns the empty sequence.
C10_ClearPoints ==
    lastOp = "clear_points" =>
        /\ control_points = <<>>
        /\ ~animating
        /\ animation_steps = <<>>
        /\ current_step = 0
        /\ get_current_points(chaikin) = <<>>

\* clear_points was called in the middle of a drag and of the playback
C10_Witness ==
    /\ lastOp = "clear_points"
    /\ dragging
    /\ before.animating
    /\ before.current_step > 0

====
